---- MODULE Spec2Model ----
(***************************************************************************)
(* batch<float, 16> of xsimd (AVX-512 backend): the operations of          *)
(* include/xsimd/types/xsimd_avx512_float.hpp, each written as the         *)
(* intrinsic calls the source makes, over an explicit model of the         *)
(* intrinsics' lane semantics.                                             *)
(*                                                                         *)
(* A float is a record [cls, sign, mag]: cls is "fin" (finite, mag counted *)
(* in quarters, so 1.5 is mag 6), "inf" or "nan"; sign is the sign bit.    *)
(* A NaN has mag 0 when it is quiet and mag 1 when it is signalling.       *)
(* +0 and -0 are the two finite values of magnitude 0.  All finite values  *)
(* of the model are small multiples of 1/4, on which float addition,       *)
(* subtraction and the conversions to and from integers are exact or round *)
(* exactly as modelled.                                                    *)
(***************************************************************************)
EXTENDS Integers, Sequences, FiniteSets, TLC

VARIABLES x, y, row, out, fmem, imem32, imem64, dmem, bench

(* the caller's buffers: 16 float, int32_t, int64_t and double elements *)
mems == <<fmem, imem32, imem64, dmem>>

vars == <<x, y, row, out, mems, bench>>

(* simd_batch_traits<batch<float, 16>>::size *)
size == 16

Lanes == 0..(size - 1)

(***************************************************************************)
(* Bounds of the inputs.                                                   *)
(***************************************************************************)
(* largest magnitude (in quarters) of the broadcast operand *)
MaxMag == 4
(* largest offset (in quarters) added to the ramp operand *)
MaxOff == 2
(* largest index handed to operator[] *)
MaxIndex == 33
(* largest row and lane coefficient of the haddp input rows *)
MaxBase == 1
(* largest offset, in elements from a 64-byte boundary, of a caller's pointer *)
MaxPtrOff == 1
(* largest length of the benchmark vectors *)
MaxLen == 33
(* largest number of passes of a benchmark loop *)
MaxNumber == 2

(***************************************************************************)
(* Floats.                                                                 *)
(***************************************************************************)
Fin(q) == [cls |-> "fin", sign |-> IF q < 0 THEN 1 ELSE 0, mag |-> IF q < 0 THEN -q ELSE q]

PosZero == [cls |-> "fin", sign |-> 0, mag |-> 0]

NegZero == [cls |-> "fin", sign |-> 1, mag |-> 0]

Inf(s) == [cls |-> "inf", sign |-> s, mag |-> 0]

NaN == [cls |-> "nan", sign |-> 0, mag |-> 0]

(* the default NaN an invalid operation produces on x86 (sign bit set) *)
IndefiniteNaN == [cls |-> "nan", sign |-> 1, mag |-> 0]

(* a signalling NaN: for a NaN, mag is 1 when its quiet bit is clear *)
SNaN == [cls |-> "nan", sign |-> 0, mag |-> 1]

IsNaN(f) == f.cls = "nan"

(* the NaN an arithmetic or converting instruction returns for a NaN operand: *)
(* the operand with its quiet bit set                                         *)
Quiet(f) == [f EXCEPT !.mag = 0]

(* the signed value, in quarters, of a finite float *)
Val(f) == IF f.sign = 1 THEN -f.mag ELSE f.mag

FlipSign(f) == [f EXCEPT !.sign = 1 - f.sign]

(* IEEE-754 addition, round to nearest, on values whose sum is exact *)
fp_add(a, b) ==
    IF IsNaN(a) THEN Quiet(a)
    ELSE IF IsNaN(b) THEN Quiet(b)
    ELSE IF a.cls = "inf"
         THEN IF b.cls = "inf" /\ b.sign # a.sign THEN IndefiniteNaN ELSE a
    ELSE IF b.cls = "inf" THEN b
    ELSE IF Val(a) + Val(b) # 0 THEN Fin(Val(a) + Val(b))
    ELSE IF a.sign = 1 /\ b.sign = 1 THEN NegZero
    ELSE PosZero

(* IEEE-754 subtraction: a NaN operand is returned quiet, otherwise a + (-b) *)
fp_sub(a, b) ==
    IF IsNaN(a) THEN Quiet(a)
    ELSE IF IsNaN(b) THEN Quiet(b)
    ELSE fp_add(a, FlipSign(b))

(* numeric order of two non-NaN floats: -inf < finite < +inf, -0 = +0 *)
Rank(f) == IF f.cls = "inf" THEN (IF f.sign = 1 THEN -1 ELSE 1) ELSE 0

fp_less(a, b) ==
    \/ Rank(a) < Rank(b)
    \/ Rank(a) = 0 /\ Rank(b) = 0 /\ Val(a) < Val(b)

fp_equal(a, b) == Rank(a) = Rank(b) /\ (Rank(a) = 0 => Val(a) = Val(b))

(***************************************************************************)
(* Intrinsics on __m512 (16 float lanes) and __mmask16 (bit i = lane i).   *)
(***************************************************************************)
mm512_setzero_ps == [i \in Lanes |-> PosZero]

mm512_add_ps(a, b) == [i \in Lanes |-> fp_add(a[i], b[i])]

mm512_sub_ps(a, b) == [i \in Lanes |-> fp_sub(a[i], b[i])]

(* one lane of a compare under predicate imm8 *)
cmp_ps(a, b, imm8) ==
    CASE imm8 = "_CMP_EQ_OQ"    -> ~IsNaN(a) /\ ~IsNaN(b) /\ fp_equal(a, b)
      [] imm8 = "_CMP_NEQ_OQ"   -> ~IsNaN(a) /\ ~IsNaN(b) /\ ~fp_equal(a, b)
      [] imm8 = "_CMP_NEQ_UQ"   -> IsNaN(a) \/ IsNaN(b) \/ ~fp_equal(a, b)
      [] imm8 = "_CMP_LT_OQ"    -> ~IsNaN(a) /\ ~IsNaN(b) /\ fp_less(a, b)
      [] imm8 = "_CMP_LE_OQ"    -> ~IsNaN(a) /\ ~IsNaN(b) /\ (fp_less(a, b) \/ fp_equal(a, b))
      [] imm8 = "_CMP_UNORD_Q"  -> IsNaN(a) \/ IsNaN(b)
      [] imm8 = "_CMP_ORD_Q"    -> ~IsNaN(a) /\ ~IsNaN(b)

mm512_cmp_ps_mask(a, b, imm8) == [i \in Lanes |-> cmp_ps(a[i], b[i], imm8)]

(* dst[i] = k[i] ? b[i] : a[i] *)
mm512_mask_blend_ps(k, a, b) == [i \in Lanes |-> IF k[i] THEN b[i] ELSE a[i]]

(* _mm512_store_ps / _mm512_storeu_ps: lane i goes to element i *)
mm512_store_ps(a) == [i \in Lanes |-> a[i]]

(* _mm512_load_ps / _mm512_loadu_ps: element i goes to lane i *)
mm512_load_ps(mem) == [i \in Lanes |-> mem[i]]

(* _MM_SHUFFLE(z, y, x, w) = (z << 6) | (y << 4) | (x << 2) | w *)
MM_SHUFFLE(z, yy, xx, w) == z * 64 + yy * 16 + xx * 4 + w

(* the two-bit field number c of an imm8 *)
ImmField(imm8, c) == (imm8 \div (4 ^ c)) % 4

(* shuffles 128-bit chunks: chunks 0, 1 of dst are the chunks of a that     *)
(* imm8[1:0], imm8[3:2] name, chunks 2, 3 the chunks of b that imm8[5:4],   *)
(* imm8[7:6] name                                                          *)
mm512_shuffle_f32x4(a, b, imm8) ==
    [i \in Lanes |->
        LET c == i \div 4
            src == IF c < 2 THEN a ELSE b
        IN  src[4 * ImmField(imm8, c) + (i % 4)]]

(* within every 128-bit chunk: elements 0, 1 of dst are the elements of a   *)
(* that imm8[1:0], imm8[3:2] name, elements 2, 3 the elements of b that     *)
(* imm8[5:4], imm8[7:6] name                                               *)
mm512_shuffle_ps(a, b, imm8) ==
    [i \in Lanes |->
        LET c == i \div 4
            e == i % 4
            src == IF e < 2 THEN a ELSE b
        IN  src[4 * c + ImmField(imm8, e)]]

HalfLanes == 0..7

mm512_extractf32x8_ps(a, imm8) == [j \in HalfLanes |-> a[8 * imm8 + j]]

(* the value of the lanes an operation leaves undefined *)
Undefined == [cls |-> "undef", sign |-> 0, mag |-> 0]

(* the upper 256 bits of the result are undefined *)
mm512_castps256_ps512(a) == [i \in Lanes |-> IF i < 8 THEN a[i] ELSE Undefined]

mm512_insertf32x8(a, b, imm8) ==
    [i \in Lanes |-> IF i \div 8 = imm8 THEN b[i % 8] ELSE a[i]]

(* horizontal add of adjacent pairs, per 128-bit chunk: a's pairs, then b's *)
mm256_hadd_ps(a, b) ==
    [j \in HalfLanes |->
        LET c == j \div 4
            e == j % 4
            src == IF e < 2 THEN a ELSE b
            k == 4 * c + 2 * (e % 2)
        IN  fp_add(src[k], src[k + 1])]

(***************************************************************************)
(* Memory intrinsics and conversions.  A buffer is a function from the     *)
(* element indices 0..15 to values; an int32_t or int64_t element is an    *)
(* integer; a double is a float record whose magnitude is counted in       *)
(* eighths (one more fraction bit than the model's float).                 *)
(***************************************************************************)
mm512_loadu_ps(mem) == [i \in Lanes |-> mem[i]]

mm512_storeu_ps(a) == [i \in Lanes |-> a[i]]

(* _mm512_load_si512 / _mm512_loadu_si512 of 16 int32_t *)
mm512_load_si512(mem) == [i \in Lanes |-> mem[i]]

(* _mm512_store_si512 / _mm512_storeu_si512 of 16 int32_t *)
mm512_store_si512(a) == [i \in Lanes |-> a[i]]

(* _mm512_load_pd / _mm512_loadu_pd: the 8 doubles at mem + base *)
mm512_load_pd(mem, base) == [j \in HalfLanes |-> mem[base + j]]

(* _mm512_store_pd / _mm512_storeu_pd: 8 doubles written at mem + base *)
mm512_store_pd(mem, base, a) ==
    [i \in Lanes |-> IF i \in base..(base + 7) THEN a[i - base] ELSE mem[i]]

(* 0x80000000, the integer indefinite value *)
Int32Indefinite == -2147483647 - 1

(* the float -2^31 (its magnitude in quarters does not fit a 32-bit        *)
(* integer, so it is a value of its own)                                   *)
MinusTwoPow31 == [cls |-> "-2^31", sign |-> 1, mag |-> 0]

(* static_cast<float>(int64_t), exact on small integers and on -2^31 *)
int_to_float(n) == IF n = Int32Indefinite THEN MinusTwoPow31 ELSE Fin(4 * n)

(* _mm512_cvt_roundepi32_ps(v, _MM_FROUND_CUR_DIRECTION), exact on small integers *)
mm512_cvt_roundepi32_ps(v) == [i \in Lanes |-> int_to_float(v[i])]

(* m / d rounded to the nearest integer, ties to the even one *)
RoundNearestEven(m, d) ==
    LET n == m \div d
        r == m % d
    IN  IF 2 * r < d THEN n
        ELSE IF 2 * r > d THEN n + 1
        ELSE IF n % 2 = 0 THEN n ELSE n + 1

(* one lane of _mm512_cvtps_epi32: rounds as MXCSR says, to nearest even   *)
(* by default; NaN and infinities give the integer indefinite value        *)
cvtps_epi32(f) ==
    IF f.cls # "fin" THEN Int32Indefinite
    ELSE IF f.sign = 1 THEN -RoundNearestEven(f.mag, 4)
    ELSE RoundNearestEven(f.mag, 4)

mm512_cvtps_epi32(a) == [i \in Lanes |-> cvtps_epi32(a[i])]

(* int64_t(f): truncation toward zero; undefined for NaN and infinities,   *)
(* where the result is the value g                                         *)
float_to_int64(f, g) ==
    IF f.cls # "fin" THEN g
    ELSE IF f.sign = 1 THEN -(f.mag \div 4)
    ELSE f.mag \div 4

(* an undefined float to int64_t conversion may give any value: it is      *)
(* drawn from these                                                        *)
UndefinedInt64 == {Int32Indefinite, 0}

(* one lane of _mm512_cvtps_pd: exact on numbers, a NaN comes out quiet *)
cvtps_pd(f) == IF IsNaN(f) THEN Quiet(f) ELSE [f EXCEPT !.mag = 2 * f.mag]

mm512_cvtps_pd(a) == [j \in HalfLanes |-> cvtps_pd(a[j])]

(* one lane of _mm512_cvtpd_ps: rounds to the nearest float, ties to even *)
cvtpd_ps(d) ==
    IF IsNaN(d) THEN Quiet(d)
    ELSE IF d.cls # "fin" THEN d
    ELSE [d EXCEPT !.mag = RoundNearestEven(d.mag, 2)]

mm512_cvtpd_ps(a) == [j \in HalfLanes |-> cvtpd_ps(a[j])]

(* the alignment, in bytes, an access requires of its address *)
RequiredAlignment(access) ==
    CASE access \in {"_mm512_load_ps", "_mm512_store_ps", "_mm512_load_si512",
                     "_mm512_store_si512", "_mm512_load_pd", "_mm512_store_pd"} -> 64
      [] access \in {"_mm512_loadu_ps", "_mm512_storeu_ps", "_mm512_loadu_si512",
                     "_mm512_storeu_si512", "_mm512_loadu_pd", "_mm512_storeu_pd"} -> 1
      [] access = "int64_t[]" -> 8

(* whether the access faults: never on an address aligned as required; on  *)
(* any other address the behaviour is undefined, the access raises a       *)
(* general-protection fault or is carried out as an unaligned one          *)
Faults(ptr, access) ==
    IF ptr % RequiredAlignment(access) = 0 THEN {FALSE} ELSE {TRUE, FALSE}

(* bitwise and of two naturals (size_t & int) *)
RECURSIVE BitAnd(_, _)
BitAnd(m, n) ==
    IF m = 0 \/ n = 0 THEN 0
    ELSE (m % 2) * (n % 2) + 2 * BitAnd(m \div 2, n \div 2)

(***************************************************************************)
(* Operations of batch<float, 16>.                                         *)
(***************************************************************************)
(* the lanes written in the opposite order *)
store_aligned_float_reversed(m_value) == [i \in Lanes |-> m_value[size - 1 - i]]

store_aligned_float(m_value) == mm512_store_ps(m_value)

operator_index_wrong(m_value, index) ==
    LET xs == store_aligned_float(m_value) IN xs[BitAnd(index, 7)]

operator_index(m_value, index) ==
    LET xs == store_aligned_float(m_value) IN xs[BitAnd(index, 15)]

operator_neg(rhs) == mm512_sub_ps(mm512_setzero_ps, rhs)

operator_eq_wrong(lhs, rhs) == mm512_cmp_ps_mask(lhs, rhs, "_CMP_LE_OQ")

operator_eq(lhs, rhs) == mm512_cmp_ps_mask(lhs, rhs, "_CMP_EQ_OQ")

operator_ne(lhs, rhs) == mm512_cmp_ps_mask(lhs, rhs, "_CMP_NEQ_OQ")

operator_lt(lhs, rhs) == mm512_cmp_ps_mask(lhs, rhs, "_CMP_LT_OQ")

operator_le(lhs, rhs) == mm512_cmp_ps_mask(lhs, rhs, "_CMP_LE_OQ")

select_swapped(cond, a, b) == mm512_mask_blend_ps(cond, a, b)

select(cond, a, b) == mm512_mask_blend_ps(cond, b, a)

isnan_ordered(v) == mm512_cmp_ps_mask(v, v, "_CMP_NEQ_OQ")

isnan(v) == mm512_cmp_ps_mask(v, v, "_CMP_UNORD_Q")

(* the constructors from a pointer *)
batch_ptr(src) == mm512_loadu_ps(src)

batch_ptr_aligned(src) == mm512_load_ps(src)

batch_ptr_unaligned(src) == mm512_load_ps(src)

load_aligned_float(src) == mm512_load_ps(src)

load_unaligned_float(src) == mm512_loadu_ps(src)

load_aligned_int64(src) ==
    LET tmp == [i \in Lanes |-> int_to_float(src[i])] IN mm512_load_ps(tmp)

load_unaligned_int64(src) == load_aligned_int64(src)

load_aligned_int32(src) == mm512_cvt_roundepi32_ps(mm512_load_si512(src))

load_unaligned_int32(src) == mm512_cvt_roundepi32_ps(mm512_load_si512(src))

load_aligned_double_swapped(src) ==
    LET tmp1 == mm512_cvtpd_ps(mm512_load_pd(src, 8))
        tmp2 == mm512_cvtpd_ps(mm512_load_pd(src, 0))
        m_value == mm512_castps256_ps512(tmp1)
    IN  mm512_insertf32x8(m_value, tmp2, 1)

load_aligned_double(src) ==
    LET tmp1 == mm512_cvtpd_ps(mm512_load_pd(src, 0))
        tmp2 == mm512_cvtpd_ps(mm512_load_pd(src, 8))
        m_value == mm512_castps256_ps512(tmp1)
    IN  mm512_insertf32x8(m_value, tmp2, 1)

load_unaligned_double(src) ==
    LET tmp1 == mm512_cvtpd_ps(mm512_load_pd(src, 0))
        tmp2 == mm512_cvtpd_ps(mm512_load_pd(src, 8))
        m_value == mm512_castps256_ps512(tmp1)
    IN  mm512_insertf32x8(m_value, tmp2, 1)

store_aligned_int32(m_value) == mm512_store_si512(mm512_cvtps_epi32(m_value))

store_unaligned_int32(m_value) == mm512_store_si512(mm512_cvtps_epi32(m_value))

store_aligned_int64(m_value, g) ==
    LET tmp == store_aligned_float(m_value)
    IN  [i \in Lanes |-> float_to_int64(tmp[i], g)]

store_unaligned_int64(m_value, g) == store_aligned_int64(m_value, g)

store_unaligned_float(m_value) == mm512_storeu_ps(m_value)

store_aligned_double_swapped(m_value, dst) ==
    LET d1 == mm512_store_pd(dst, 0, mm512_cvtps_pd(mm512_extractf32x8_ps(m_value, 1)))
    IN  mm512_store_pd(d1, 8, mm512_cvtps_pd(mm512_extractf32x8_ps(m_value, 0)))

store_aligned_double(m_value, dst) ==
    LET d1 == mm512_store_pd(dst, 0, mm512_cvtps_pd(mm512_extractf32x8_ps(m_value, 0)))
    IN  mm512_store_pd(d1, 8, mm512_cvtps_pd(mm512_extractf32x8_ps(m_value, 1)))

store_unaligned_double(m_value, dst) ==
    LET d1 == mm512_store_pd(dst, 0, mm512_cvtps_pd(mm512_extractf32x8_ps(m_value, 0)))
    IN  mm512_store_pd(d1, 8, mm512_cvtps_pd(mm512_extractf32x8_ps(m_value, 1)))

(* the access each entry point makes on the caller's pointer *)
CallerAccess(op) ==
    CASE op = "batch(const float*)"                 -> "_mm512_loadu_ps"
      [] op = "batch(const float*, aligned_mode)"   -> "_mm512_load_ps"
      [] op = "batch(const float*, unaligned_mode)" -> "_mm512_load_ps"
      [] op = "load_aligned(const float*)"          -> "_mm512_load_ps"
      [] op = "load_unaligned(const float*)"        -> "_mm512_loadu_ps"
      [] op = "load_aligned(const int64_t*)"        -> "int64_t[]"
      [] op = "load_unaligned(const int64_t*)"      -> "int64_t[]"
      [] op = "load_aligned(const int32_t*)"        -> "_mm512_load_si512"
      [] op = "load_unaligned(const int32_t*)"      -> "_mm512_loadu_si512"
      [] op = "load_aligned(const double*)"         -> "_mm512_load_pd"
      [] op = "load_unaligned(const double*)"       -> "_mm512_loadu_pd"
      [] op = "store_aligned(int32_t*)"             -> "_mm512_store_si512"
      [] op = "store_unaligned(int32_t*)"           -> "_mm512_storeu_si512"
      [] op = "store_aligned(int64_t*)"             -> "int64_t[]"
      [] op = "store_unaligned(int64_t*)"           -> "int64_t[]"
      [] op = "store_aligned(float*)"               -> "_mm512_store_ps"
      [] op = "store_unaligned(float*)"             -> "_mm512_storeu_ps"
      [] op = "store_aligned(double*)"              -> "_mm512_store_pd"
      [] op = "store_unaligned(double*)"            -> "_mm512_storeu_pd"

operator_plus(lhs, rhs) == mm512_add_ps(lhs, rhs)

(* hadd(const batch<float, 8>&) of the AVX backend: the horizontal sum of   *)
(* the 8 lanes                                                              *)
RECURSIVE hadd8_from(_, _)
hadd8_from(v, n) == IF n = 0 THEN v[0] ELSE fp_add(hadd8_from(v, n - 1), v[n])

hadd8(v) == hadd8_from(v, 7)

(* the low half folded onto itself: the high half is lost *)
hadd_low_twice(rhs) ==
    LET tmp1 == mm512_extractf32x8_ps(rhs, 0)
        tmp2 == mm512_extractf32x8_ps(rhs, 0)
        res1 == [j \in HalfLanes |-> fp_add(tmp1[j], tmp2[j])]
    IN  hadd8(res1)

hadd(rhs) ==
    LET tmp1 == mm512_extractf32x8_ps(rhs, 1)
        tmp2 == mm512_extractf32x8_ps(rhs, 0)
        res1 == [j \in HalfLanes |-> fp_add(tmp1[j], tmp2[j])]
    IN  hadd8(res1)

(* folds a and b over once: [a0..7 + a8..15, b0..7 + b8..15] *)
XSIMD_AVX512_HADDP_STEP1(a, b) ==
    LET tmp1 == mm512_shuffle_f32x4(a, b, MM_SHUFFLE(1, 0, 1, 0))
        tmp2 == mm512_shuffle_f32x4(a, b, MM_SHUFFLE(3, 2, 3, 2))
    IN  mm512_add_ps(tmp1, tmp2)

XSIMD_AVX512_HADDP_STEP2(a, b, c, d) ==
    LET tmp1 == mm512_shuffle_f32x4(a, b, MM_SHUFFLE(2, 0, 2, 0))
        tmp2 == mm512_shuffle_f32x4(a, b, MM_SHUFFLE(3, 1, 3, 1))
        resx1 == operator_plus(tmp1, tmp2)
        tmp3 == mm512_shuffle_f32x4(c, d, MM_SHUFFLE(2, 0, 2, 0))
        tmp4 == mm512_shuffle_f32x4(c, d, MM_SHUFFLE(3, 1, 3, 1))
        resx2 == operator_plus(tmp3, tmp4)
        tmp5 == mm512_shuffle_ps(resx1, resx2, 0)
        tmp6 == mm512_shuffle_ps(resx1, resx2, 255)
        resx3 == operator_plus(tmp5, tmp6)
    IN  mm256_hadd_ps(mm512_extractf32x8_ps(resx3, 0), mm512_extractf32x8_ps(resx3, 1))

haddp(rows) ==
    LET res1 == XSIMD_AVX512_HADDP_STEP1(rows[0], rows[4])
        res2 == XSIMD_AVX512_HADDP_STEP1(rows[2], rows[6])
        res3 == XSIMD_AVX512_HADDP_STEP1(rows[1], rows[5])
        res4 == XSIMD_AVX512_HADDP_STEP1(rows[3], rows[7])
        res5 == XSIMD_AVX512_HADDP_STEP1(rows[8], rows[12])
        res6 == XSIMD_AVX512_HADDP_STEP1(rows[10], rows[14])
        res7 == XSIMD_AVX512_HADDP_STEP1(rows[9], rows[13])
        res8 == XSIMD_AVX512_HADDP_STEP1(rows[11], rows[15])
        halfx0 == XSIMD_AVX512_HADDP_STEP2(res1, res2, res3, res4)
        halfx1 == XSIMD_AVX512_HADDP_STEP2(res5, res6, res7, res8)
        concat == mm512_castps256_ps512(halfx0)
    IN  mm512_insertf32x8(concat, halfx1, 1)

(***************************************************************************)
(* Inputs.                                                                 *)
(***************************************************************************)
FloatVals ==
    {Fin(q) : q \in (-MaxMag)..MaxMag} \cup {NegZero, Inf(0), Inf(1), NaN}

Specials == {NegZero, Inf(0), Inf(1), NaN}

(* batch(float): the value in every lane *)
Splat(v) == [i \in Lanes |-> v]

(* lane i holds (i - 8 + off) / 4: all lanes distinct, both signs, zero *)
Ramp(off) == [i \in Lanes |-> Fin(i - 8 + off)]

(* lane i holds (7 - i + off) / 4 *)
RevRamp(off) == [i \in Lanes |-> Fin(7 - i + off)]

MaskInputs ==
    {[i \in Lanes |-> i < m] : m \in 0..size}
    \cup {[i \in Lanes |-> i % 2 = p] : p \in 0..1}
    \cup {[i \in Lanes |-> i = k] : k \in Lanes}

RampInputs ==
    {Ramp(off) : off \in 0..MaxOff}
    \cup {[Ramp(off) EXCEPT ![k] = w] : off \in 0..MaxOff, k \in Lanes, w \in Specials}

(* a ramp with +inf, -inf and -0 in three of its lanes *)
RampInf(off) == [Ramp(off) EXCEPT ![1] = Inf(0), ![6] = Inf(1), ![12] = NegZero]

(* a ramp with NaN in the lanes a mask selects: any mix of NaN and non-NaN lanes *)
NanMixInputs ==
    {[i \in Lanes |-> IF m[i] THEN NaN ELSE b[i]] :
        b \in {Ramp(off) : off \in 0..MaxOff} \cup {RampInf(off) : off \in 0..MaxOff},
        m \in MaskInputs}

OperandInputs ==
    {Splat(v) : v \in FloatVals} \cup {RevRamp(off) : off \in 0..MaxOff}

(* 16 rows of 16 small integers: row i holds b * i + c * j in lane j, plus  *)
(* one in lane k of row r                                                   *)
RowInputs ==
    {[i \in Lanes |-> [j \in Lanes |->
          Fin(b * i + c * j + (IF i = r /\ j = k THEN 1 ELSE 0))]] :
       b \in 0..MaxBase, c \in 0..MaxBase, r \in Lanes, k \in Lanes}

NoRows == << >>

NoBatch == << >>

NoMem == << >>

NoBuffers == fmem = NoMem /\ imem32 = NoMem /\ imem64 = NoMem /\ dmem = NoMem

NoCond == << >>

NoBench == << >>

Result(op, val) == [op |-> op, val |-> val, cond |-> NoCond, index |-> 0]

(***************************************************************************)
(* Specification Spec: the value operations applied to two batches.        *)
(***************************************************************************)
Init ==
    /\ x \in RampInputs \cup NanMixInputs
    /\ y \in OperandInputs
    /\ row = NoRows
    /\ NoBuffers
    /\ bench = NoBench
    /\ out = Result("none", 0)

(* no operation has been applied to the operands yet *)
Idle == out.op = "none"

Negate ==
    /\ Idle
    /\ out' = Result("neg", operator_neg(x))
    /\ UNCHANGED <<x, y, row, bench, mems>>

Equal ==
    /\ Idle
    /\ out' = Result("eq", operator_eq(x, y))
    /\ UNCHANGED <<x, y, row, bench, mems>>

NotEqual ==
    /\ Idle
    /\ out' = Result("ne", operator_ne(x, y))
    /\ UNCHANGED <<x, y, row, bench, mems>>

Less ==
    /\ Idle
    /\ out' = Result("lt", operator_lt(x, y))
    /\ UNCHANGED <<x, y, row, bench, mems>>

LessEqual ==
    /\ Idle
    /\ out' = Result("le", operator_le(x, y))
    /\ UNCHANGED <<x, y, row, bench, mems>>

Select ==
    /\ Idle
    /\ \E cond \in MaskInputs \cup {operator_lt(x, y)} :
          out' = [Result("select", select(cond, x, y)) EXCEPT !.cond = cond]
    /\ UNCHANGED <<x, y, row, bench, mems>>

IsNan ==
    /\ Idle
    /\ out' = Result("isnan", isnan(x))
    /\ UNCHANGED <<x, y, row, bench, mems>>

Index ==
    /\ Idle
    /\ \E index \in 0..MaxIndex :
          out' = [Result("index", operator_index(x, index)) EXCEPT !.index = index]
    /\ UNCHANGED <<x, y, row, bench, mems>>

(* the result of an operation on the one batch arg *)
ArgResult(op, arg, val) == [op |-> op, val |-> val, cond |-> NoCond, index |-> 0, arg |-> arg]

Hadd ==
    /\ Idle
    /\ \E arg \in {x, y} : out' = ArgResult("hadd", arg, hadd(arg))
    /\ UNCHANGED <<x, y, row, bench, mems>>

Next ==
    \/ Negate
    \/ Equal
    \/ NotEqual
    \/ Less
    \/ LessEqual
    \/ Select
    \/ IsNan
    \/ Index
    \/ Hadd

Spec == Init /\ [][Next]_vars

(***************************************************************************)
(* Specification SpecHaddp: haddp applied to 16 rows.                      *)
(***************************************************************************)
InitHaddp ==
    /\ x = NoBatch
    /\ y = NoBatch
    /\ row \in RowInputs
    /\ NoBuffers
    /\ bench = NoBench
    /\ out = Result("none", 0)

Haddp ==
    /\ Idle
    /\ out' = Result("haddp", haddp(row))
    /\ UNCHANGED <<x, y, row, bench, mems>>

NextHaddp == Haddp

SpecHaddp == InitHaddp /\ [][NextHaddp]_vars

(* the exact sum of the lanes 0..n-1 of a batch of small integers *)
RECURSIVE LaneSum(_, _)
LaneSum(b, n) == IF n = 0 THEN 0 ELSE Val(b[n - 1]) + LaneSum(b, n - 1)

(* C1: lane i of haddp(row) is the sum of all 16 lanes of row[i], for rows  *)
(* of arbitrary small integers (on which float addition is exact).         *)
C1_HaddpLaneIsRowSum ==
    out.op = "haddp" =>
        \A i \in Lanes : out.val[i] = Fin(LaneSum(row[i], size))

(***************************************************************************)
(* Specification SpecMem: the calling program constructs or loads a batch  *)
(* from a buffer, or stores the batch x and loads it back from the buffer  *)
(* it stored to.  A faulting access ends the program.                      *)
(***************************************************************************)
(* addresses of buffers of 4-byte and of 8-byte elements, as byte offsets   *)
(* from a 64-byte boundary                                                  *)
Ptrs4 == {4 * k : k \in 0..MaxPtrOff}

Ptrs8 == {8 * k : k \in 0..MaxPtrOff}

(* a double whose value is e / 8 *)
DFin(e) == [cls |-> "fin", sign |-> IF e < 0 THEN 1 ELSE 0, mag |-> IF e < 0 THEN -e ELSE e]

MemResult(op, ptr, fault, after) ==
    [op |-> op, ptr |-> ptr, req |-> RequiredAlignment(CallerAccess(op)),
     fault |-> fault, after |-> after]

(* a ramp with a signalling NaN in one lane *)
SNaNInputs == {[Ramp(off) EXCEPT ![k] = SNaN] : off \in 0..MaxOff, k \in Lanes}

InitMem ==
    /\ x \in RampInputs \cup SNaNInputs
    /\ y = NoBatch
    /\ row = NoRows
    /\ fmem = [i \in Lanes |-> Fin(2 * i - 5)]
    /\ imem32 = [i \in Lanes |-> i - 4]
    /\ imem64 = [i \in Lanes |-> 3 * i - 20]
    /\ dmem = [i \in Lanes |-> DFin(3 * i - 20)]
    /\ bench = NoBench
    /\ out = [op |-> "none", ptr |-> 0, req |-> 0, fault |-> FALSE, after |-> "none"]

FloatLoads == {"load_aligned(const float*)", "load_unaligned(const float*)"}

FloatStores == {"store_aligned(float*)", "store_unaligned(float*)"}

Int32Loads == {"load_aligned(const int32_t*)", "load_unaligned(const int32_t*)"}

Int32Stores == {"store_aligned(int32_t*)", "store_unaligned(int32_t*)"}

Int64Loads == {"load_aligned(const int64_t*)", "load_unaligned(const int64_t*)"}

Int64Stores == {"store_aligned(int64_t*)", "store_unaligned(int64_t*)"}

DoubleLoads == {"load_aligned(const double*)", "load_unaligned(const double*)"}

DoubleStores == {"store_aligned(double*)", "store_unaligned(double*)"}

Constructors ==
    {"batch(const float*)", "batch(const float*, aligned_mode)",
     "batch(const float*, unaligned_mode)"}

(* nothing has been called yet *)
Start == out.op = "none"

(* the last call stored to the buffer and did not fault *)
Stored(stores) == out.op \in stores /\ ~out.fault

Construct ==
    /\ Start
    /\ \E op \in Constructors, ptr \in Ptrs4 :
       \E fault \in Faults(ptr, CallerAccess(op)) :
          /\ out' = MemResult(op, ptr, fault, out.op)
          /\ x' = IF fault THEN x
                  ELSE CASE op = "batch(const float*)" -> batch_ptr(fmem)
                         [] op = "batch(const float*, aligned_mode)" -> batch_ptr_aligned(fmem)
                         [] op = "batch(const float*, unaligned_mode)" -> batch_ptr_unaligned(fmem)
    /\ UNCHANGED <<y, row, bench, mems>>

LoadFloat ==
    /\ Start \/ Stored(FloatStores)
    /\ \E op \in FloatLoads, ptr \in Ptrs4 :
       \E fault \in Faults(ptr, CallerAccess(op)) :
          /\ out' = MemResult(op, ptr, fault, out.op)
          /\ x' = IF fault THEN x
                  ELSE IF op = "load_aligned(const float*)" THEN load_aligned_float(fmem)
                  ELSE load_unaligned_float(fmem)
    /\ UNCHANGED <<y, row, bench, mems>>

LoadInt32 ==
    /\ Start \/ Stored(Int32Stores)
    /\ \E op \in Int32Loads, ptr \in Ptrs4 :
       \E fault \in Faults(ptr, CallerAccess(op)) :
          /\ out' = MemResult(op, ptr, fault, out.op)
          /\ x' = IF fault THEN x
                  ELSE IF op = "load_aligned(const int32_t*)" THEN load_aligned_int32(imem32)
                  ELSE load_unaligned_int32(imem32)
    /\ UNCHANGED <<y, row, bench, mems>>

LoadInt64 ==
    /\ Start \/ Stored(Int64Stores)
    /\ \E op \in Int64Loads, ptr \in Ptrs8 :
       \E fault \in Faults(ptr, CallerAccess(op)) :
          /\ out' = MemResult(op, ptr, fault, out.op)
          /\ x' = IF fault THEN x
                  ELSE IF op = "load_aligned(const int64_t*)" THEN load_aligned_int64(imem64)
                  ELSE load_unaligned_int64(imem64)
    /\ UNCHANGED <<y, row, bench, mems>>

LoadDouble ==
    /\ Start \/ Stored(DoubleStores)
    /\ \E op \in DoubleLoads, ptr \in Ptrs8 :
       \E fault \in Faults(ptr, CallerAccess(op)) :
          /\ out' = MemResult(op, ptr, fault, out.op)
          /\ x' = IF fault THEN x
                  ELSE IF op = "load_aligned(const double*)" THEN load_aligned_double(dmem)
                  ELSE load_unaligned_double(dmem)
    /\ UNCHANGED <<y, row, bench, mems>>

StoreFloat ==
    /\ Start
    /\ \E op \in FloatStores, ptr \in Ptrs4 :
       \E fault \in Faults(ptr, CallerAccess(op)) :
          /\ out' = MemResult(op, ptr, fault, out.op)
          /\ fmem' = IF fault THEN fmem
                     ELSE IF op = "store_aligned(float*)" THEN store_aligned_float(x)
                     ELSE store_unaligned_float(x)
    /\ UNCHANGED <<x, y, row, bench, imem32, imem64, dmem>>

StoreInt32 ==
    /\ Start
    /\ \E op \in Int32Stores, ptr \in Ptrs4 :
       \E fault \in Faults(ptr, CallerAccess(op)) :
          /\ out' = MemResult(op, ptr, fault, out.op)
          /\ imem32' = IF fault THEN imem32
                       ELSE IF op = "store_aligned(int32_t*)" THEN store_aligned_int32(x)
                       ELSE store_unaligned_int32(x)
    /\ UNCHANGED <<x, y, row, bench, fmem, imem64, dmem>>

(* the conversion of a lane that is NaN or infinite is undefined: the value *)
(* written for such lanes is one of UndefinedInt64                          *)
StoreInt64 ==
    /\ Start
    /\ \E op \in Int64Stores, ptr \in Ptrs8, g \in UndefinedInt64 :
       \E fault \in Faults(ptr, CallerAccess(op)) :
          /\ out' = MemResult(op, ptr, fault, out.op)
          /\ imem64' = IF fault THEN imem64
                       ELSE IF op = "store_aligned(int64_t*)" THEN store_aligned_int64(x, g)
                       ELSE store_unaligned_int64(x, g)
    /\ UNCHANGED <<x, y, row, bench, fmem, imem32, dmem>>

StoreDouble ==
    /\ Start
    /\ \E op \in DoubleStores, ptr \in Ptrs8 :
       \E fault \in Faults(ptr, CallerAccess(op)) :
          /\ out' = MemResult(op, ptr, fault, out.op)
          /\ dmem' = IF fault THEN dmem
                     ELSE IF op = "store_aligned(double*)" THEN store_aligned_double(x, dmem)
                     ELSE store_unaligned_double(x, dmem)
    /\ UNCHANGED <<x, y, row, bench, fmem, imem32, imem64>>

NextMem ==
    \/ Construct
    \/ LoadFloat
    \/ LoadInt32
    \/ LoadInt64
    \/ LoadDouble
    \/ StoreFloat
    \/ StoreInt32
    \/ StoreInt64
    \/ StoreDouble

SpecMem == InitMem /\ [][NextMem]_vars

(***************************************************************************)
(* Properties of the loads and stores (specification SpecMem).             *)
(***************************************************************************)
UnalignedEntryPoints ==
    {"batch(const float*)", "batch(const float*, unaligned_mode)",
     "load_unaligned(const int32_t*)", "load_unaligned(const int64_t*)",
     "load_unaligned(const float*)", "load_unaligned(const double*)",
     "store_unaligned(int32_t*)", "store_unaligned(int64_t*)",
     "store_unaligned(float*)", "store_unaligned(double*)"}

(* C2: no unaligned entry point makes an access on the caller's pointer     *)
(* that requires 64-byte alignment, so none of them faults on any pointer.  *)
C2_UnalignedAcceptsAnyPointer ==
    out.op \in UnalignedEntryPoints => out.req < 64 /\ ~out.fault

(* C3: a store to int32_t* or int64_t* writes to dst[i] lane i truncated     *)
(* toward zero, for every finite lane.                                      *)
C3_IntegerStoreTruncates ==
    /\ (out.op \in Int32Stores /\ ~out.fault) =>
          \A i \in Lanes : x[i].cls = "fin" =>
              imem32[i] = (IF x[i].sign = 1 THEN -1 ELSE 1) * (x[i].mag \div 4)
    /\ (out.op \in Int64Stores /\ ~out.fault) =>
          \A i \in Lanes : x[i].cls = "fin" =>
              imem64[i] = (IF x[i].sign = 1 THEN -1 ELSE 1) * (x[i].mag \div 4)

(* C10: a store to a float buffer writes lane i to element i and leaves the *)
(* batch unchanged, and a load from that buffer then yields the same 16     *)
(* lanes exactly.                                                           *)
C10_FloatRoundTrip ==
    [][/\ out'.op \in FloatStores =>
              /\ x' = x
              /\ ~out'.fault => \A i \in Lanes : fmem'[i] = x[i]
       /\ (out.op \in FloatStores /\ out'.op \in FloatLoads /\ ~out'.fault) =>
              /\ x' = x
              /\ \A i \in Lanes : x'[i] = fmem[i]]_vars

C10_Witness ==
    /\ out.op \in FloatLoads
    /\ out.after \in FloatStores
    /\ ~out.fault
    /\ x = fmem
    /\ \E i, j \in Lanes : x[i].cls = "nan" /\ x[j] = PosZero
    /\ \A i, j \in Lanes : i # j => x[i] # x[j]

(***************************************************************************)
(* Properties of the value operations (specification Spec).                *)
(***************************************************************************)
(* C4: operator!= is the per-lane scalar comparison: lane i of a != b is   *)
(* true exactly when the scalar a[i] != b[i] is true, which it is whenever *)
(* a[i] or b[i] is NaN.                                                    *)
C4_NotEqualIsScalarNotEqual ==
    out.op = "ne" =>
        \A i \in Lanes :
            out.val[i] = (IsNaN(x[i]) \/ IsNaN(y[i]) \/ ~fp_equal(x[i], y[i]))

(* C5: unary minus flips the sign bit of every non-NaN lane and keeps its  *)
(* magnitude, as the scalar unary minus does (+0 becomes -0).              *)
C5_NegateFlipsSignBit ==
    out.op = "neg" =>
        \A i \in Lanes : ~IsNaN(x[i]) => out.val[i] = FlipSign(x[i])

(* C6: lane i of select(cond, a, b) is a[i] where cond[i] is true and b[i] *)
(* where it is false, for every lane.                                      *)
C6_SelectPerLane ==
    out.op = "select" =>
        \A i \in Lanes : out.val[i] = IF out.cond[i] THEN x[i] ELSE y[i]

C6_Witness ==
    /\ out.op = "select"
    /\ \E i, j \in Lanes :
          /\ out.cond[i] /\ ~out.cond[j]
          /\ x[i] # y[i] /\ x[j] # y[j]
          /\ y[i] # y[j] /\ x[i] # x[j]

(* C7: operator[](index) returns lane (index mod 16) for every index >= 0, *)
(* and leaves the batch unchanged.                                         *)
C7_IndexWraps ==
    [][out'.op = "index" =>
          /\ out'.val = x[out'.index % size]
          /\ x' = x]_vars

C7_Witness ==
    /\ out.op = "index"
    /\ out.index >= 2 * size
    /\ out.val = x[out.index - 2 * size]
    /\ out.val # x[0]

(* C8: lane i of isnan(x) is true if and only if x[i] is NaN.              *)
C8_IsNanPerLane ==
    out.op = "isnan" => \A i \in Lanes : out.val[i] = (x[i].cls = "nan")

C8_Witness ==
    /\ out.op = "isnan"
    /\ \E k \in Lanes :
          /\ x[k].cls = "nan" /\ out.val[k]
          /\ \A i \in Lanes \ {k} : x[i].cls # "nan" /\ ~out.val[i]
          /\ \E i \in Lanes : x[i].cls = "inf"

(* C9: operator<, operator<= and operator== are ordered comparisons: the   *)
(* mask bit of lane i is false when a[i] or b[i] is NaN and is otherwise   *)
(* the scalar a[i] < b[i], a[i] <= b[i], a[i] == b[i] (+0 == -0 is true).  *)
C9_OrderedComparisons ==
    \A i \in Lanes :
        LET ordered == x[i].cls # "nan" /\ y[i].cls # "nan" IN
        /\ out.op = "lt" => out.val[i] = (ordered /\ fp_less(x[i], y[i]))
        /\ out.op = "le" => out.val[i] = (ordered /\ ~fp_less(y[i], x[i]))
        /\ out.op = "eq" => out.val[i] = (ordered /\ ~fp_less(x[i], y[i]) /\ ~fp_less(y[i], x[i]))

C9_Witness ==
    /\ out.op = "eq"
    /\ \E i, j, k \in Lanes :
          /\ x[i] = PosZero /\ y[i] = NegZero /\ out.val[i]
          /\ x[j].cls = "nan" /\ ~out.val[j]
          /\ x[k].cls = "fin" /\ ~out.val[k]

(* C11: hadd returns the sum of all 16 lanes, every lane counted exactly    *)
(* once (lane k is added to lane k + 8, then the 8 sums are added up); for  *)
(* a batch whose every lane is 1.0 the result is 16.0.                      *)
C11_HaddSumsAllLanes ==
    (out.op = "hadd" /\ \A i \in Lanes : out.arg[i].cls = "fin") =>
        /\ out.val.cls = "fin"
        /\ Val(out.val) = LaneSum(out.arg, size)
        /\ (\A i \in Lanes : out.arg[i] = Fin(4)) => out.val = Fin(64)

C11_Witness ==
    /\ out.op = "hadd"
    /\ \A i \in Lanes : out.arg[i] = Fin(4)
    /\ out.val = Fin(64)

(***************************************************************************)
(* Specification SpecBench: benchmark_scalar and benchmark_simd of         *)
(* benchmark/xsimd_benchmark.hpp, with B = batch<float, 16> and the        *)
(* functor add_fn (or a one-operand functor whose values are left          *)
(* uninterpreted).  The vectors lhs, rhs, res hold s floats, element       *)
(* indices 0..s-1, and start on a 64-byte boundary (aligned_allocator), so *)
(* that &lhs[i] is aligned for every multiple i of B::size.  One action is *)
(* one iteration of the inner loop or the end of one pass.                 *)
(***************************************************************************)
(* DEFINE_OP_FUNCTOR_2OP(+, add) on T = float and on T = batch<float, 16> *)
add_fn(lhs, rhs) == fp_add(lhs, rhs)

add_fn_batch(lhs, rhs) == operator_plus(lhs, rhs)

(* DEFINE_FUNCTOR_1OP(FN): FN(x), a value the model does not interpret *)
fn1(v) == [cls |-> "fn", sign |-> 0, mag |-> 0, of |-> v]

fn1_batch(b) == [j \in Lanes |-> fn1(b[j])]

(* the 16 elements at &v[i]; an element past the end of v has no defined value *)
BlockAt(v, s, i) == [j \in Lanes |-> IF i + j < s THEN v[i + j] ELSE Undefined]

(* v after 16 elements were stored at &v[i]; what a store past the end of   *)
(* v overwrites is not part of v                                            *)
StoreBlock(v, s, i, b) ==
    [k \in 0..(s - 1) |-> IF k \in i..(i + size - 1) THEN b[k - i] ELSE v[k]]

(* the body of the inner loop that stores nothing *)
simd_body_2op_no_store(lhs, rhs, res, s, i) == res

(* the body of the inner loop of benchmark_simd, two operands *)
simd_body_2op(lhs, rhs, res, s, i) ==
    LET blhs == load_aligned_float(BlockAt(lhs, s, i))
        brhs == load_aligned_float(BlockAt(rhs, s, i))
        bres == add_fn_batch(blhs, brhs)
    IN  StoreBlock(res, s, i, store_aligned_float(bres))

(* the body of the inner loop of benchmark_simd, one operand *)
simd_body_1op(lhs, res, s, i) ==
    LET blhs == load_aligned_float(BlockAt(lhs, s, i))
        bres == fn1_batch(blhs)
    IN  StoreBlock(res, s, i, store_aligned_float(bres))

(* the body of the inner loop of benchmark_scalar, two operands *)
scalar_body_2op(lhs, rhs, res, i) == [res EXCEPT ![i] = add_fn(lhs[i], rhs[i])]

BenchLhs(s, a) == [i \in 0..(s - 1) |-> Fin(i - 8 + a)]

BenchRhs(s) ==
    [i \in 0..(s - 1) |->
        IF i % 7 = 3 THEN NaN ELSE IF i % 7 = 5 THEN Inf(0) ELSE Fin(3 - 2 * i)]

(* res.resize(size): value-initialised elements *)
BenchRes(s) == [i \in 0..(s - 1) |-> PosZero]

BenchModes == {"benchmark_scalar/2", "benchmark_simd/2", "benchmark_simd/1"}

InitBench ==
    /\ x = NoBatch
    /\ y = NoBatch
    /\ row = NoRows
    /\ NoBuffers
    /\ out = Result("none", 0)
    /\ \E s \in 0..MaxLen, a \in 0..MaxOff, number \in 0..MaxNumber, mode \in BenchModes :
          bench = [mode |-> mode, s |-> s, number |-> number,
                   lhs |-> BenchLhs(s, a), rhs |-> BenchRhs(s), res |-> BenchRes(s),
                   count |-> 0, i |-> 0, steps |-> 0,
                   touched |-> -1, crashed |-> FALSE]

(* the outer loop is running *)
Running(mode) == bench.mode = mode /\ ~bench.crashed /\ bench.count < bench.number

(* whether the program dies of an access to elements i..last of a vector of *)
(* s elements: an access past the end is undefined, it faults or goes on    *)
Crashes(last, s) == IF last < s THEN {FALSE} ELSE {TRUE, FALSE}

Max(a, b) == IF a > b THEN a ELSE b

ScalarStep ==
    /\ Running("benchmark_scalar/2")
    /\ bench.i < bench.s
    /\ bench' = [bench EXCEPT
                   !.res = scalar_body_2op(bench.lhs, bench.rhs, bench.res, bench.i),
                   !.touched = Max(bench.touched, bench.i),
                   !.steps = bench.steps + 1,
                   !.i = bench.i + 1]
    /\ UNCHANGED <<x, y, row, out, mems>>

Simd2Step ==
    /\ Running("benchmark_simd/2")
    /\ bench.i < bench.s
    /\ \E crashed \in Crashes(bench.i + size - 1, bench.s) :
          bench' = [bench EXCEPT
                      !.res = IF crashed THEN bench.res
                              ELSE simd_body_2op(bench.lhs, bench.rhs, bench.res, bench.s, bench.i),
                      !.touched = Max(bench.touched, bench.i + size - 1),
                      !.crashed = crashed,
                      !.steps = bench.steps + 1,
                      !.i = bench.i + size]
    /\ UNCHANGED <<x, y, row, out, mems>>

Simd1Step ==
    /\ Running("benchmark_simd/1")
    /\ bench.i < bench.s
    /\ \E crashed \in Crashes(bench.i + size - 1, bench.s) :
          bench' = [bench EXCEPT
                      !.res = IF crashed THEN bench.res
                              ELSE simd_body_1op(bench.lhs, bench.res, bench.s, bench.i),
                      !.touched = Max(bench.touched, bench.i + size - 1),
                      !.crashed = crashed,
                      !.steps = bench.steps + 1,
                      !.i = bench.i + size]
    /\ UNCHANGED <<x, y, row, out, mems>>

(* the inner loop ends: ++count *)
PassEnd ==
    /\ ~bench.crashed
    /\ bench.count < bench.number
    /\ bench.i >= bench.s
    /\ bench' = [bench EXCEPT !.count = bench.count + 1, !.i = 0, !.steps = 0]
    /\ UNCHANGED <<x, y, row, out, mems>>

NextBench ==
    \/ ScalarStep
    \/ Simd2Step
    \/ Simd1Step
    \/ PassEnd

SpecBench == InitBench /\ [][NextBench]_vars

(* C12: for vectors whose length is a multiple of B::size, at the end of    *)
(* every pass of benchmark_simd<B>(add, ...) and of benchmark_scalar(add,   *)
(* ...) every element res[i] is lhs[i] + rhs[i], so both produce the same   *)
(* array, however many passes are made; lhs and rhs are never changed.      *)
C12_BatchedLoopEqualsScalarLoop ==
    [][(bench.s % size = 0 /\ bench.mode \in {"benchmark_scalar/2", "benchmark_simd/2"}) =>
          /\ bench'.lhs = bench.lhs
          /\ bench'.rhs = bench.rhs
          /\ bench'.count > bench.count =>
                /\ ~bench'.crashed
                /\ \A k \in 0..(bench.s - 1) :
                      bench'.res[k] = fp_add(bench.lhs[k], bench.rhs[k])]_vars

C12_Witness ==
    /\ bench # NoBench
    /\ bench.mode = "benchmark_simd/2"
    /\ bench.s = 2 * size
    /\ bench.count = bench.number
    /\ bench.number > 1
    /\ \A k \in 0..(bench.s - 1) : bench.res[k] = fp_add(bench.lhs[k], bench.rhs[k])
    /\ \E k \in 0..(bench.s - 1) : bench.res[k].cls = "fin" /\ bench.res[k] # PosZero

(* C17: whatever the length s of the vectors, no load or store of            *)
(* benchmark_simd covers an element index >= s, and a pass takes            *)
(* ceil(s / B::size) steps.                                                  *)
C17_BatchedLoopStaysInBounds ==
    (bench # NoBench /\ bench.mode \in {"benchmark_simd/2", "benchmark_simd/1"}) =>
        /\ bench.touched < bench.s
        /\ ~bench.crashed
        /\ bench.steps <= (bench.s + size - 1) \div size
        /\ (bench.i >= bench.s) => bench.steps = (bench.s + size - 1) \div size

(***************************************************************************)
(* Specification SpecCtor: the value constructors batch(float) and          *)
(* batch(float, ..., float), each followed by one operator[] or one         *)
(* store_aligned to a float buffer.  The 16 arguments i0..i15 are the       *)
(* sequence args, args[k + 1] being ik.                                     *)
(***************************************************************************)
(* _mm512_set1_ps(a): a in every lane *)
mm512_set1_ps(a) == [i \in Lanes |-> a]

(* _mm512_set_ps(e15, ..., e0): the first argument goes to lane 15 *)
mm512_set_ps(args) == [i \in Lanes |-> args[size - i]]

(* _mm512_setr_ps(e0, ..., e15): the first argument goes to lane 0 *)
mm512_setr_ps(args) == [i \in Lanes |-> args[i + 1]]

(* batch(float i) *)
batch_float(i) == mm512_set1_ps(i)

(* batch(float i0, ..., float i15) *)
batch_floats(args) == mm512_setr_ps(args)

(* the lanes of a batch value as an argument list *)
ArgList(b) == [k \in 1..size |-> b[k - 1]]

CtorArgs == {ArgList(b) : b \in RampInputs \cup NanMixInputs}

CtorResult(ctor, args, op, index, val) ==
    [ctor |-> ctor, args |-> args, op |-> op, index |-> index, val |-> val]

InitCtor ==
    /\ x = NoBatch
    /\ y = NoBatch
    /\ row = NoRows
    /\ NoBuffers
    /\ bench = NoBench
    /\ out = CtorResult("none", << >>, "none", 0, 0)

Constructed == out.ctor # "none" /\ out.op = "none"

CtorBroadcast ==
    /\ out.ctor = "none"
    /\ \E v \in FloatVals :
          /\ x' = batch_float(v)
          /\ out' = CtorResult("batch(float)", <<v>>, "none", 0, 0)
    /\ UNCHANGED <<y, row, bench, mems>>

CtorLanes ==
    /\ out.ctor = "none"
    /\ \E args \in CtorArgs :
          /\ x' = batch_floats(args)
          /\ out' = CtorResult("batch(float, ..., float)", args, "none", 0, 0)
    /\ UNCHANGED <<y, row, bench, mems>>

CtorIndex ==
    /\ Constructed
    /\ \E k \in Lanes :
          out' = [out EXCEPT !.op = "operator[]", !.index = k, !.val = operator_index(x, k)]
    /\ UNCHANGED <<x, y, row, bench, mems>>

CtorStore ==
    /\ Constructed
    /\ out' = [out EXCEPT !.op = "store_aligned(float*)"]
    /\ fmem' = store_aligned_float(x)
    /\ UNCHANGED <<x, y, row, bench, imem32, imem64, dmem>>

NextCtor ==
    \/ CtorBroadcast
    \/ CtorLanes
    \/ CtorIndex
    \/ CtorStore

SpecCtor == InitCtor /\ [][NextCtor]_vars

(* C13: batch(float v) holds v in every lane; batch(i0, ..., i15) holds ik  *)
(* in lane k, so operator[](k) returns ik and a store to a float buffer     *)
(* writes ik at element k.                                                  *)
C13_ConstructorsFillLanesInOrder ==
    /\ out.ctor = "batch(float)" => \A k \in Lanes : x[k] = out.args[1]
    /\ out.ctor = "batch(float, ..., float)" => \A k \in Lanes : x[k] = out.args[k + 1]
    /\ (out.ctor = "batch(float)" /\ out.op = "operator[]") => out.val = out.args[1]
    /\ (out.ctor = "batch(float, ..., float)" /\ out.op = "operator[]") =>
          out.val = out.args[out.index + 1]
    /\ (out.ctor = "batch(float)" /\ out.op = "store_aligned(float*)") =>
          \A k \in Lanes : fmem[k] = out.args[1]
    /\ (out.ctor = "batch(float, ..., float)" /\ out.op = "store_aligned(float*)") =>
          \A k \in Lanes : fmem[k] = out.args[k + 1]

C13_Witness ==
    /\ out.ctor = "batch(float, ..., float)"
    /\ out.op = "store_aligned(float*)"
    /\ \A j, k \in Lanes : j # k => out.args[j + 1] # out.args[k + 1]
    /\ fmem[0] = out.args[1]
    /\ fmem[15] = out.args[16]

(* the float whose value is the integer n, for n of small magnitude or -2^31 *)
FloatOfInt(n) ==
    IF n = Int32Indefinite THEN MinusTwoPow31
    ELSE [cls |-> "fin", sign |-> IF n < 0 THEN 1 ELSE 0, mag |-> 4 * (IF n < 0 THEN -n ELSE n)]

(* a double (magnitude in eighths) that some float (magnitude in quarters) equals *)
RepresentableAsFloat(d) == d.cls # "fin" \/ d.mag % 2 = 0

(* the float equal to a representable double *)
FloatOfDouble(d) == IF d.cls # "fin" THEN d ELSE [d EXCEPT !.mag = d.mag \div 2]

(* C14: after a load from int32_t*, int64_t* or double* that did not fault, *)
(* lane i holds the numeric value of src[i], for every i in 0..15, whenever *)
(* src[i] is exactly representable as a float.                              *)
C14_CrossTypeLoadConvertsPerLane ==
    /\ (out.op \in Int32Loads /\ ~out.fault) =>
          \A i \in Lanes : x[i] = FloatOfInt(imem32[i])
    /\ (out.op \in Int64Loads /\ ~out.fault) =>
          \A i \in Lanes : x[i] = FloatOfInt(imem64[i])
    /\ (out.op \in DoubleLoads /\ ~out.fault) =>
          \A i \in Lanes : RepresentableAsFloat(dmem[i]) => x[i] = FloatOfDouble(dmem[i])

C14_Witness ==
    /\ out.op = "load_aligned(const double*)"
    /\ ~out.fault
    /\ out.after = "none"
    /\ dmem[0] = DFin(-20) /\ x[0] = Fin(-10)
    /\ dmem[12] = DFin(16) /\ x[12] = Fin(8)

(* the double that holds the value of float f *)
DoubleOfFloat(f) ==
    IF f.cls = "fin" THEN [f EXCEPT !.mag = 2 * f.mag]
    ELSE IF f.cls = "nan" THEN Quiet(f)
    ELSE f

(* C15 as stated: a store to a double buffer writes lane i to dst[i] and a  *)
(* load from that buffer then yields the stored batch exactly, in every     *)
(* lane, whatever the batch holds.                                          *)
C15_DoubleRoundTripExact ==
    [][/\ (out'.op \in DoubleStores /\ ~out'.fault) =>
              /\ x' = x
              /\ \A i \in Lanes : dmem'[i] = DoubleOfFloat(x[i])
       /\ (out.op \in DoubleStores /\ out'.op \in DoubleLoads /\ ~out'.fault) =>
              x' = x]_vars

(* C15: a store to a double buffer writes lane i to dst[i] (lanes 0..7 to   *)
(* dst[0..7], lanes 8..15 to dst[8..15]) and leaves the batch unchanged; a   *)
(* load from that buffer then yields, in lane i, lane i of the stored batch *)
(* exactly, except that a signalling NaN comes back as the quiet NaN of the *)
(* same sign.                                                               *)
C15_DoubleRoundTrip ==
    [][/\ (out'.op \in DoubleStores /\ ~out'.fault) =>
              /\ x' = x
              /\ \A i \in Lanes : dmem'[i] = DoubleOfFloat(x[i])
       /\ (out.op \in DoubleStores /\ out'.op \in DoubleLoads /\ ~out'.fault) =>
              \A i \in Lanes :
                 /\ x[i] # SNaN => x'[i] = x[i]
                 /\ x[i] = SNaN => x'[i] = NaN]_vars

C15_Witness ==
    /\ out.op \in DoubleLoads
    /\ out.after \in DoubleStores
    /\ ~out.fault
    /\ \A i \in Lanes : dmem[i] = DoubleOfFloat(x[i])
    /\ \E i \in Lanes : x[i] = Inf(1)
    /\ x[0] = Fin(-8) /\ x[15] = Fin(7)

(***************************************************************************)
(* Specification SpecBits: the bitwise operators.  Here a lane is its bit  *)
(* pattern, the set of the positions 0..31 of its set bits (31 the sign,   *)
(* 23..30 the exponent, 0..22 the fraction).                               *)
(***************************************************************************)
Bits == 0..31

mm512_and_ps(a, b) == [i \in Lanes |-> a[i] \cap b[i]]

mm512_or_ps(a, b) == [i \in Lanes |-> a[i] \cup b[i]]

mm512_xor_ps(a, b) == [i \in Lanes |-> (a[i] \ b[i]) \cup (b[i] \ a[i])]

(* _mm512_andnot_ps(a, b): (NOT a) AND b *)
mm512_andnot_ps(a, b) == [i \in Lanes |-> (Bits \ a[i]) \cap b[i]]

(* _mm512_set1_epi32(-1): every bit of every lane set *)
mm512_set1_epi32_minus1 == [i \in Lanes |-> Bits]

(* _mm512_castsi512_ps: the same 512 bits *)
mm512_castsi512_ps(a) == a

operator_and(lhs, rhs) == mm512_and_ps(lhs, rhs)

operator_or(lhs, rhs) == mm512_or_ps(lhs, rhs)

operator_xor(lhs, rhs) == mm512_xor_ps(lhs, rhs)

operator_not(rhs) == mm512_xor_ps(rhs, mm512_castsi512_ps(mm512_set1_epi32_minus1))

bitwise_andnot(lhs, rhs) == mm512_andnot_ps(lhs, rhs)

(* bit patterns: 0.0f, all ones, the sign bit, 1.0f, the fraction bits,    *)
(* +inf, the odd bits, the lowest bit                                      *)
Patterns ==
    <<{}, Bits, {31}, 23..29, 0..22, 23..30, {b \in Bits : b % 2 = 1}, {0}>>

BitInputs ==
    {[i \in Lanes |-> Patterns[k]] : k \in 1..Len(Patterns)}
    \cup {[i \in Lanes |-> Patterns[((i + r) % Len(Patterns)) + 1]] : r \in 0..(Len(Patterns) - 1)}

InitBits ==
    /\ x \in BitInputs
    /\ y \in BitInputs
    /\ row = NoRows
    /\ NoBuffers
    /\ bench = NoBench
    /\ out = Result("none", 0)

And ==
    /\ Idle
    /\ out' = Result("operator&", operator_and(x, y))
    /\ UNCHANGED <<x, y, row, bench, mems>>

Or ==
    /\ Idle
    /\ out' = Result("operator|", operator_or(x, y))
    /\ UNCHANGED <<x, y, row, bench, mems>>

Xor ==
    /\ Idle
    /\ out' = Result("operator^", operator_xor(x, y))
    /\ UNCHANGED <<x, y, row, bench, mems>>

Not ==
    /\ Idle
    /\ out' = Result("operator~", operator_not(y))
    /\ UNCHANGED <<x, y, row, bench, mems>>

AndNot ==
    /\ Idle
    /\ out' = Result("bitwise_andnot", bitwise_andnot(x, y))
    /\ UNCHANGED <<x, y, row, bench, mems>>

NextBits ==
    \/ And
    \/ Or
    \/ Xor
    \/ Not
    \/ AndNot

SpecBits == InitBits /\ [][NextBits]_vars

(* C16: bitwise_andnot(lhs, rhs) is lhs & ~rhs on the bit pattern of every *)
(* lane: the bits of lhs with the bits set in rhs cleared, which is what   *)
(* operator& applied to lhs and operator~ of rhs gives.                    *)
C16_AndnotIsLhsAndNotRhs ==
    out.op = "bitwise_andnot" =>
        /\ out.val = operator_and(x, operator_not(y))
        /\ \A i \in Lanes : out.val[i] = x[i] \ y[i]

====
